---- MODULE Spec2Model ----
(***************************************************************************)
(* A model of promised-models: the settlement loop of lib/model.js, its    *)
(* persistence verbs, and the membership engine of the Collection.         *)
(*                                                                         *)
(* JavaScript runs one turn at a time.  Every action below is one turn (or *)
(* one synchronous call of _calculate inside a turn): code of another turn *)
(* (an external set, a storage reply, a promise callback) runs only        *)
(* between turns.  While pc = "round" control is inside the synchronous    *)
(* call chain _onCalculateSuccess -> _calculate(++n) and nothing else runs.*)
(***************************************************************************)
EXTENDS Integers, Sequences, FiniteSets, TLC

\* ---------------------------------------------------------------- bounds
MaxVal == 1            \* attribute values are 0..MaxVal
MaxExtSets == 1        \* external model.set calls per behaviour
MaxHandlerSets == 1    \* set calls made by change-event handlers
MaxCalls == 2          \* calls of a caller per behaviour (set, destruct, verbs; commit, revert)
MaxModels == 2         \* models constructed outside the collection
MaxCreated == 1        \* models the collection constructs from plain data
MaxId == 1             \* identities of collection members are 1..MaxId
MaxInputLen == 2       \* length of the array given to set, add and remove
MaxCollWork == 4       \* collection operations plus array entries given to them, per behaviour

\* ------------------------------------------------------ program constants
maxCalculations == 100
Undef == -1            \* JavaScript undefined (no data given, no commit yet)
Null == -2             \* JavaScript null (identity not assigned)

Val == 0 .. MaxVal

DEFAULT_BRANCH == "DEFAULT_BRANCH"
CHANGE_BRANCH == "CHANGE_BRANCH"
CALCULATIONS_BRANCH == "CALCULATIONS_BRANCH"
CUSTOM_BRANCH == "custom"      \* a branch id chosen by a caller
Branches == {DEFAULT_BRANCH, CHANGE_BRANCH, CALCULATIONS_BRANCH, CUSTOM_BRANCH}

VARIABLES
    m,          \* the Model object and the position of its settlement chain
    data,       \* the data the constructor was given
    extSets,    \* external set calls made so far
    hSets,      \* set calls made by change handlers so far
    raced,      \* a set call changed the model during the pending joined wait
    ops,        \* the verb and destruct calls made, each with its position
    storage,    \* the number of records the Storage holds
    coll,       \* the Collection object and the Model objects it may be given
    collOps     \* collection operations called and array entries given so far

vars == <<m, data, extSets, hSets, raced, ops, storage, coll, collOps>>

\* ------------------------------------------------------------- schema
\* The attributes a model type declares, in declaration order.
AttrNames(hasId) == IF hasId THEN <<"id", "a", "b">> ELSE <<"a", "b">>

NameSet(st) == {st.names[i] : i \in 1 .. Len(st.names)}

\* The default of an attribute that got no data.
DefaultOf(name) == IF name = "id" THEN Null ELSE 0

\* calculate(b) = F(a): idempotent, F(F(x)) = F(x).
F(x) == IF x = 0 THEN 0 ELSE MaxVal

\* The calculate hook of attribute b, by the kind the schema declares.
CalcFn(st) ==
    IF st.calc = "f" THEN F(st.value["a"])
    ELSE (st.value["b"] + 1) % (MaxVal + 1)

\* ------------------------------------------------------------- events
Trigger(st, kind, arg) == [st EXCEPT !.events = Append(@, <<kind, arg>>)]

\* ------------------------------------------------- branches of a model
AttrIsChanged(st, name, branch) == st.value[name] # st.branches[branch][name]

IsChanged(st, branch) == \E name \in NameSet(st) : AttrIsChanged(st, name, branch)

ChangedFields(st, branch) ==
    LET Test(name) == AttrIsChanged(st, name, branch)
    IN  SelectSeq(st.names, Test)

Commit(st, branch) ==
    LET st1 == [st EXCEPT !.branches[branch] = st.value]
    IN  IF IsChanged(st, branch) THEN Trigger(st1, "commit", branch) ELSE st1

\* Mutant: revert leaves the current values alone.
RevertKeepsCurrent(st, branch) == st

Revert(st, branch) == [st EXCEPT !.value = st.branches[branch]]

\* ------------------------------------------------------- calculate()
\* Mutant: calculate() starts a chain whether or not the model is ready.
CalculateConcurrently(st) ==
    [Trigger([st EXCEPT !._ready = FALSE], "calculate", "") EXCEPT
        !.pc = "scheduled",
        !.promise = "pending", !.chain = @ + 1,
        !.rounds = 0, !.nChange = 0, !.fired = {}, !.first = FALSE,
        !.failure = "none", !.changedFields = <<>>]

Calculate(st) ==
    IF st._ready
    THEN [Trigger([st EXCEPT !._ready = FALSE], "calculate", "") EXCEPT
              !.pc = "scheduled",
              !.promise = "pending", !.chain = @ + 1,
              !.rounds = 0, !.nChange = 0, !.fired = {}, !.first = FALSE,
              !.failure = "none", !.changedFields = <<>>]
    ELSE [st EXCEPT !._requireMoreCalculations = TRUE]

\* attribute.set(value): a no-op on an equal value, else the new value and
\* a request for settlement.
AttrSet(st, name, v) ==
    IF st.value[name] = v THEN st
    ELSE Calculate([st EXCEPT !.value[name] = v])

\* model.set(name, value)
Set(st, name, v) == IF name \in NameSet(st) THEN AttrSet(st, name, v) ELSE st

\* model.set(data): every declared attribute whose datum is not undefined.
RECURSIVE SetFrom(_, _, _)
SetFrom(st, d, i) ==
    IF i > Len(st.names) THEN st
    ELSE LET name == st.names[i]
         IN  SetFrom(IF d[name] # Undef THEN Set(st, name, d[name]) ELSE st, d, i + 1)

SetData(st, d) == SetFrom(st, d, 1)

NoData == [name \in {"id", "a", "b"} |-> Undef]

\* ------------------------------------------------------ settlement loop
CheckContinueCalculations(st) ==
    IsChanged(st, CALCULATIONS_BRANCH) \/ st._requireMoreCalculations

\* Mutant: the race guard is gone, the results are always applied.
SetCalculatedDataNoGuard(st, d) == <<TRUE, SetData(st, d)>>

\* Mutant: the results are never applied.
SetCalculatedDataDropped(st, d) == <<~CheckContinueCalculations(st), st>>

\* _setCalculatedData: <<applied, state>>
SetCalculatedData(st, d) ==
    IF ~CheckContinueCalculations(st) THEN <<TRUE, SetData(st, d)>> ELSE <<FALSE, st>>

\* _emitAttributeChange
EmitAttributeChange(st, name) ==
    [Trigger(st, "change", name) EXCEPT !.fired = @ \cup {name}]

RECURSIVE EmitAttributeChanges(_, _, _)
EmitAttributeChanges(st, fields, i) ==
    IF i > Len(fields) THEN st
    ELSE EmitAttributeChanges(EmitAttributeChange(st, fields[i]), fields, i + 1)

\* _emitChange
EmitChange(st) == [Trigger(st, "change", "") EXCEPT !.nChange = @ + 1]

\* A change handler: h = <<>> (does nothing) or <<name, value>> (calls set).
RunHandler(st, h) == IF h = <<>> THEN st ELSE Set(st, h[1], h[2])

\* Mutant: `change` is emitted whether or not anything changed.
TriggerEventsUnguarded(st, h) ==
    LET changedFileds == ChangedFields(st, CHANGE_BRANCH)
        st1 == Commit(st, CHANGE_BRANCH)
        st2 == EmitAttributeChanges(st1, changedFileds, 1)
    IN  RunHandler(EmitChange(st2), h)

\* Mutant: the change branch is not committed before the events.
TriggerEventsNoCommit(st, h) ==
    IF IsChanged(st, CHANGE_BRANCH)
    THEN LET changedFileds == ChangedFields(st, CHANGE_BRANCH)
             st2 == EmitAttributeChanges(st, changedFileds, 1)
         IN  RunHandler(EmitChange(st2), h)
    ELSE st

TriggerEvents(st, h) ==
    IF IsChanged(st, CHANGE_BRANCH)
    THEN LET changedFileds == ChangedFields(st, CHANGE_BRANCH)
             st1 == Commit(st, CHANGE_BRANCH)
             st2 == EmitAttributeChanges(st1, changedFileds, 1)
             st3 == EmitChange(st2)
         IN  RunHandler(st3, h)
    ELSE st

NextRound(st) == [st EXCEPT !.n = @ + 1, !.pc = "round"]

\* Mutant: the condition is not checked again after the events.
OnCalculateSuccessNoRecheck(st, d, h) ==
    LET r == SetCalculatedData(st, d)
        st1 == r[2]
    IN  IF ~r[1] \/ CheckContinueCalculations(st1)
        THEN NextRound(st1)
        ELSE [TriggerEvents(st1, h) EXCEPT !._ready = TRUE, !.pc = "idle",
                                           !.promise = "fulfilled",
                                           !.okChains = @ \cup {st1.chain}]

OnCalculateSuccess(st, d, h) ==
    LET r == SetCalculatedData(st, d)
        st1 == r[2]
    IN  IF ~r[1] \/ CheckContinueCalculations(st1)
        THEN NextRound(st1)
        ELSE LET st2 == TriggerEvents(st1, h)
             IN  IF CheckContinueCalculations(st2)
                 THEN NextRound(st2)
                 ELSE [st2 EXCEPT !._ready = TRUE, !.pc = "idle",
                                  !.promise = "fulfilled",
                                  !.okChains = @ \cup {st2.chain}]

ThrowCalculationLoop(st) ==
    [st EXCEPT !.pc = "rejected", !.failure = "loop", !.everFailed = TRUE,
               !.changedFields = ChangedFields(st, CALCULATIONS_BRANCH)]

\* The body of _calculate(n) below the ceiling check. res says what the
\* hooks hand back: "pending" a nested attribute's readiness that is pending,
\* "rejected" an amend or nested-readiness promise that is rejected already,
\* "settled" neither. isResolved() is true of a rejected promise as well, so
\* a promise rejected already is not collected.
RunRound(st0, res, h) ==
    LET st1 == [Commit(st0, CALCULATIONS_BRANCH) EXCEPT !.rounds = @ + 1]
        hasCalculations == st0.calc # "none"
        calculations == IF hasCalculations
                        THEN [NoData EXCEPT !["b"] = CalcFn(st1)]
                        ELSE NoData
        amends == st0.amend # "none" /\ AttrIsChanged(st1, "a", CHANGE_BRANCH)
        pending == (amends /\ st0.amend = "async") \/ (st0.nested /\ res = "pending")
        st2 == [st1 EXCEPT !.calcCalls = IF hasCalculations THEN 2 ELSE 0,
                           !.amendCalls = IF amends THEN 1 ELSE 0,
                           !.alreadyRejected =
                               /\ res = "rejected"
                               /\ (amends /\ st0.amend = "sync") \/ st0.nested]
    IN  IF hasCalculations \/ pending
        THEN [st2 EXCEPT !.pc = "waiting", !.calculations = calculations]
        ELSE OnCalculateSuccess(st2, NoData, h)

EnterRound(st, n) ==
    [st EXCEPT !.n = n, !._requireMoreCalculations = FALSE, !._ready = FALSE,
               !.calcCalls = 0, !.amendCalls = 0, !.alreadyRejected = FALSE]

\* Mutant: the ceiling is checked with > instead of >=.
CalculateRoundOffByOne(st, n, res, h) ==
    IF n > maxCalculations THEN ThrowCalculationLoop(EnterRound(st, n))
    ELSE RunRound(EnterRound(st, n), res, h)

\* _calculate(n)
CalculateRound(st, n, res, h) ==
    IF n >= maxCalculations THEN ThrowCalculationLoop(EnterRound(st, n))
    ELSE RunRound(EnterRound(st, n), res, h)

\* ------------------------------------------------------------ Collection
PREVIOUS_BRANCH == "PREVIOUS_BRANCH"
CollBranches == {DEFAULT_BRANCH, PREVIOUS_BRANCH}

\* Model objects by reference; NoObject is no entry.
Objects == 1 .. (MaxModels + MaxCreated)
NoObject == 0
Ids == 1 .. MaxId

\* A Model object as the collection sees it: previousId is the identity its
\* listeners were told last, which idAttribute.previous() gives while the
\* change of the identity is announced.
ModelObject(id, isNested) ==
    [born |-> TRUE, id |-> id, previousId |-> id, isNested |-> isNested,
     isDestructed |-> FALSE]

Unborn ==
    [born |-> FALSE, id |-> Null, previousId |-> Null, isNested |-> FALSE,
     isDestructed |-> FALSE]

CollTrigger(c, kind, o, at) == [c EXCEPT !.events = Append(@, <<kind, o, at>>)]

IsEqualToArray(c, models) == models = c._models

GetCacheBranch(c, branch) == c._cacheBranches[branch]

\* Mutant: commit stores no snapshot.
CollCommitNoSnapshot(c, branch) == c

\* commit(branch): the members here carry no attribute but the identity, so
\* model.commit(branch) changes nothing.
CollCommit(c, branch) ==
    IF ~IsEqualToArray(c, GetCacheBranch(c, branch))
    THEN LET c1 == [c EXCEPT !._cacheBranches[branch] = c._models]
         IN  IF branch = DEFAULT_BRANCH
             THEN CollTrigger(c1, "commit", NoObject, 0) ELSE c1
    ELSE c

\* Array.prototype.indexOf, 0-based, -1 when absent.
IndexOf(models, o) ==
    IF \E i \in DOMAIN models : models[i] = o
    THEN (CHOOSE i \in DOMAIN models :
            models[i] = o /\ \A j \in 1 .. (i - 1) : models[j] # o) - 1
    ELSE -1

IsExists(c, o) == IndexOf(c._models, o) # -1

CollGet(c, id) == c._modelsIdsMap[id]

AddModelReference(c, o) ==
    LET id == c.pool[o].id
        c1 == IF id # Null THEN [c EXCEPT !._modelsIdsMap[id] = o] ELSE c
    IN  [c1 EXCEPT !.relays = @ \cup {o}]

RemoveModelReference(c, o) ==
    LET id == c.pool[o].id
        c1 == [c EXCEPT !.relays = @ \ {o}]
        c2 == IF id # Null THEN [c1 EXCEPT !._modelsIdsMap[id] = NoObject] ELSE c1
    IN  IF c.pool[o].isNested THEN [c2 EXCEPT !.pool[o].isDestructed = TRUE] ELSE c2

\* _onModelEvent('change:' + idAttribute.name, model)
OnModelEvent(c, o) ==
    LET previous == c.pool[o].previousId
        id == c.pool[o].id
        c1 == IF previous # Null THEN [c EXCEPT !._modelsIdsMap[previous] = NoObject] ELSE c
        c2 == IF id # Null THEN [c1 EXCEPT !._modelsIdsMap[id] = o] ELSE c1
    IN  CollTrigger(c2, "change:id", o, 0)

\* An input entry is <<"model", object>> or <<"data", identity>>: plain data
\* becomes a new nested model.  The result is <<collection state, object>>.
PrepareModel(c, e) ==
    IF e[1] = "model" THEN <<c, e[2]>>
    ELSE LET o == CHOOSE o \in Objects :
                    ~c.pool[o].born /\ \A p \in 1 .. (o - 1) : c.pool[p].born
         IN  <<[c EXCEPT !.pool[o] = ModelObject(e[2], TRUE)], o>>

RECURSIVE RemoveReferences(_, _, _)
RemoveReferences(c, models, i) ==
    IF i > Len(models) THEN c
    ELSE RemoveReferences(RemoveModelReference(c, models[i]), models, i + 1)

RECURSIVE MapPrepare(_, _, _, _)
MapPrepare(c, input, i, acc) ==
    IF i > Len(input) THEN [c EXCEPT !._models = acc]
    ELSE LET r == PrepareModel(c, input[i])
         IN  MapPrepare(AddModelReference(r[1], r[2]), input, i + 1, Append(acc, r[2]))

\* set(models)
CollSet(c, input) ==
    LET c1 == CollCommit(c, PREVIOUS_BRANCH)
        c2 == RemoveReferences(c1, c1._models, 1)
        c3 == MapPrepare(c2, input, 1, <<>>)
    IN  CollTrigger(c3, "reset", NoObject, 0)

\* Array.prototype.splice(at, 0, o): an index beyond the end appends.
Splice(models, at, o) ==
    LET k == IF at > Len(models) THEN Len(models) ELSE at
    IN  SubSeq(models, 1, k) \o <<o>> \o SubSeq(models, k + 1, Len(models))

\* _addModel(model, options): at is Undef when options carry none.
AddModel(c, o, at) ==
    LET a == IF at # Undef THEN at ELSE Len(c._models)
        c1 == [c EXCEPT !._models = Splice(@, a, o)]
    IN  CollTrigger(AddModelReference(c1, o), "add", o, a)

RECURSIVE AddEach(_, _, _, _)
AddEach(c, input, at, i) ==
    IF i > Len(input) THEN c
    ELSE LET r == PrepareModel(c, input[i])
             c1 == r[1]
             o == r[2]
             id == c1.pool[o].id
             skip == IsExists(c1, o) \/ (id # Null /\ CollGet(c1, id) # NoObject)
         IN  AddEach(IF skip THEN c1
                     ELSE AddModel(c1, o, IF at = Undef THEN Undef ELSE at + (i - 1)),
                     input, at, i + 1)

\* add(models, options)
CollAdd(c, input, at) == AddEach(CollCommit(c, PREVIOUS_BRANCH), input, at, 1)

\* Mutant: the model is spliced out but its references are kept.
RemoveModelKeepsReference(c, o) ==
    LET at == IndexOf(c._models, o)
        c2 == [c EXCEPT !._models = SubSeq(@, 1, at) \o SubSeq(@, at + 2, Len(@))]
    IN  CollTrigger(c2, "remove", o, at)

\* _removeModel(model)
RemoveModel(c, o) ==
    LET at == IndexOf(c._models, o)
        c1 == RemoveModelReference(c, o)
        c2 == [c1 EXCEPT !._models = SubSeq(@, 1, at) \o SubSeq(@, at + 2, Len(@))]
    IN  CollTrigger(c2, "remove", o, at)

RECURSIVE RemoveEach(_, _, _)
RemoveEach(c, models, i) ==
    IF i > Len(models) THEN c
    ELSE RemoveEach(IF IsExists(c, models[i]) THEN RemoveModel(c, models[i]) ELSE c,
                    models, i + 1)

\* Mutant: the relay of `destruct` removes nothing.
OnModelDestructIgnored(c, o) == CollTrigger(c, "destruct", o, 0)

\* _onModelEvent('destruct', model): _removeModel, then the event is
\* triggered on the collection.
OnModelDestruct(c, o) == CollTrigger(RemoveModel(c, o), "destruct", o, 0)

\* model.destruct(): the flag, the `destruct` event to the listeners, then
\* every listener is removed.
ModelDestruct(c, o) ==
    LET c1 == [c EXCEPT !.pool[o].isDestructed = TRUE]
        c2 == IF o \in c1.relays THEN OnModelDestruct(c1, o) ELSE c1
    IN  [c2 EXCEPT !.relays = @ \ {o}]

\* remove(models)
CollRemove(c, models) == RemoveEach(CollCommit(c, PREVIOUS_BRANCH), models, 1)

\* revert(branch): model.revert(branch) changes nothing here.
CollRevert(c, branch) ==
    LET cache == GetCacheBranch(c, branch)
    IN  IF ~IsEqualToArray(c, cache)
        THEN CollSet(c, [i \in DOMAIN cache |-> <<"model", cache[i]>>])
        ELSE c

\* new Collection(data): set(data), commit().
NewCollection(pool, input) ==
    LET c == [_models |-> <<>>,
              _modelsIdsMap |-> [id \in Ids |-> NoObject],
              _cacheBranches |-> [br \in CollBranches |-> <<>>],
              relays |-> {}, pool |-> pool, events |-> <<>>]
    IN  CollCommit(CollSet(c, input), DEFAULT_BRANCH)

\* No model exists and the collection is empty.
NoCollection == NewCollection([o \in Objects |-> Unborn], <<>>)

\* ---------------------------------------------------------- construction
\* Mutant: the constructor runs round 0 itself.
ConstructEager(schema, d) ==
    LET names == AttrNames(schema.hasId)
        seed == [name \in {names[i] : i \in 1 .. Len(names)} |->
                    IF d[name] = Undef THEN DefaultOf(name) ELSE d[name]]
        none == [name \in DOMAIN seed |-> Undef]
        st == [names |-> names, calc |-> schema.calc, amend |-> schema.amend,
               nested |-> schema.nested,
               value |-> seed,
               branches |-> [br \in Branches |->
                                IF br = DEFAULT_BRANCH THEN seed ELSE none],
               _ready |-> TRUE, _requireMoreCalculations |-> FALSE,
               _isDestructed |-> FALSE,
               pc |-> "idle", n |-> 0, calculations |-> NoData,
               promise |-> "fulfilled", chain |-> 0, okChains |-> {0},
               events |-> <<>>,
               failure |-> "none", changedFields |-> <<>>,
               rounds |-> 0, nChange |-> 0, fired |-> {}, first |-> TRUE,
               everFailed |-> FALSE, calcCalls |-> 0, amendCalls |-> 0,
               alreadyRejected |-> FALSE]
    IN  CalculateRound([Calculate(Commit(st, CHANGE_BRANCH)) EXCEPT !.first = TRUE],
                       0, "settled", <<>>)

Construct(schema, d) ==
    LET names == AttrNames(schema.hasId)
        seed == [name \in {names[i] : i \in 1 .. Len(names)} |->
                    IF d[name] = Undef THEN DefaultOf(name) ELSE d[name]]
        none == [name \in DOMAIN seed |-> Undef]
        st == [names |-> names, calc |-> schema.calc, amend |-> schema.amend,
               nested |-> schema.nested,
               value |-> seed,
               branches |-> [br \in Branches |->
                                IF br = DEFAULT_BRANCH THEN seed ELSE none],
               _ready |-> TRUE, _requireMoreCalculations |-> FALSE,
               _isDestructed |-> FALSE,
               pc |-> "idle", n |-> 0, calculations |-> NoData,
               promise |-> "fulfilled", chain |-> 0, okChains |-> {0},
               events |-> <<>>,
               failure |-> "none", changedFields |-> <<>>,
               rounds |-> 0, nChange |-> 0, fired |-> {}, first |-> TRUE,
               everFailed |-> FALSE, calcCalls |-> 0, amendCalls |-> 0,
               alreadyRejected |-> FALSE]
    IN  [Calculate(Commit(st, CHANGE_BRANCH)) EXCEPT !.first = TRUE]

\* The model types checked.
Schemas ==
    {s \in [calc : {"none", "f", "inc"}, amend : {"none", "sync", "async"},
            nested : BOOLEAN, hasId : {FALSE}] :
        /\ s.nested => s.amend = "none"
        /\ s.calc = "inc" => (s.amend = "none" /\ ~s.nested)}

\* A datum of the constructor: absent, or a value other than the default.
DataVals == {Undef, MaxVal}

Datas == [id : {Undef}, a : DataVals, b : DataVals]

Init ==
    /\ \E schema \in Schemas, d \in Datas :
        /\ m = Construct(schema, d)
        /\ data = d
    /\ extSets = 0
    /\ hSets = 0
    /\ raced = FALSE
    /\ ops = <<>>
    /\ storage = 0
    /\ coll = NoCollection
    /\ collOps = 0

\* ---------------------------------------------------------------- actions
Quiet(st) == [st EXCEPT !.events = <<>>]

\* Another turn's code calls model.set(name, v).
ExtSet ==
    /\ m.pc # "round"
    /\ extSets < MaxExtSets
    /\ \E name \in {"a", "b"}, v \in Val :
        /\ m.value[name] # v
        /\ m' = Set(Quiet(m), name, v)
    /\ extSets' = extSets + 1
    /\ raced' = (raced \/ m.pc = "waiting")
    /\ UNCHANGED <<data, hSets, ops, storage, coll, collOps>>

\* destruct() removes every listener.
HandlerChoices ==
    {<<>>} \cup (IF hSets < MaxHandlerSets /\ ~m._isDestructed
                 THEN {<<"a", v>> : v \in Val} ELSE {})

HandlerUsed(h, before, after) ==
    IF h # <<>> /\ after.nChange > before.nChange THEN 1 ELSE 0

\* What the amend and readiness hooks of a round can hand back.
HookResults(st) ==
    {"settled"} \cup (IF st.nested THEN {"pending"} ELSE {})
                \cup (IF st.nested \/ st.amend = "sync" THEN {"rejected"} ELSE {})

\* The turn after calculate(): fulfill().then(_calculate), and every
\* synchronous _calculate(++n) after it.
Round ==
    /\ m.pc \in {"scheduled", "round"}
    /\ \E res \in HookResults(m), h \in HandlerChoices :
        /\ m' = CalculateRound(Quiet(m), IF m.pc = "scheduled" THEN 0 ELSE m.n, res, h)
        /\ hSets' = hSets + HandlerUsed(h, m, m')
    /\ raced' = FALSE
    /\ UNCHANGED <<data, extSets, ops, storage, coll, collOps>>

\* The joined wait of a round resolves: spread(_onCalculateSuccess).
WaitResolve ==
    /\ m.pc = "waiting"
    /\ \E h \in HandlerChoices :
        /\ m' = OnCalculateSuccess(Quiet(m), m.calculations, h)
        /\ hSets' = hSets + HandlerUsed(h, m, m')
    /\ UNCHANGED <<data, extSets, raced, ops, storage, coll, collOps>>

\* A calculate, amend or nested-readiness result of the round is rejected.
WaitReject ==
    /\ m.pc = "waiting"
    /\ m' = [Quiet(m) EXCEPT !.pc = "rejected", !.failure = "hook",
                             !.everFailed = TRUE]
    /\ UNCHANGED <<data, extSets, hSets, raced, ops, storage, coll, collOps>>

\* Mutant: the fail callback does not set _ready.
FailHandlerStuck ==
    /\ m.pc = "rejected"
    /\ m' = [Quiet(m) EXCEPT !.pc = "idle", !.promise = "rejected"]
    /\ UNCHANGED <<data, extSets, hSets, raced, ops, storage, coll, collOps>>

\* The fail callback calculate() attached to _readyPromise.
FailHandler ==
    /\ m.pc = "rejected"
    /\ m' = [Quiet(m) EXCEPT !._ready = TRUE, !.pc = "idle",
                             !.promise = "rejected"]
    /\ UNCHANGED <<data, extSets, hSets, raced, ops, storage, coll, collOps>>

Next == ExtSet \/ Round \/ WaitResolve \/ WaitReject \/ FailHandler

Spec == Init /\ [][Next]_vars

\* ------------------------------------------------------------ scheduling
\* A change handler registered for good: at every `change` it may call set,
\* with the default value or with another one.
EverHandlers == {<<>>, <<"a", 0>>, <<"a", MaxVal>>}

\* Round, with the handler registered for good.
RoundEver ==
    /\ m.pc \in {"scheduled", "round"}
    /\ \E res \in HookResults(m), h \in EverHandlers :
        m' = CalculateRound(Quiet(m), IF m.pc = "scheduled" THEN 0 ELSE m.n, res, h)
    /\ raced' = FALSE
    /\ UNCHANGED <<data, extSets, hSets, ops, storage, coll, collOps>>

\* WaitResolve, with the handler registered for good.
WaitResolveEver ==
    /\ m.pc = "waiting"
    /\ \E h \in EverHandlers : m' = OnCalculateSuccess(Quiet(m), m.calculations, h)
    /\ UNCHANGED <<data, extSets, hSets, raced, ops, storage, coll, collOps>>

NextLive == ExtSet \/ RoundEver \/ WaitResolveEver \/ FailHandler

\* The model types checked for termination: a nested attribute stands
\* beside a calculated one.
LiveSchemas == {s \in Schemas : s.nested => s.calc = "f"}

InitLive ==
    /\ \E schema \in LiveSchemas : m = Construct(schema, NoData)
    /\ data = NoData
    /\ extSets = 0
    /\ hSets = 0
    /\ raced = FALSE
    /\ ops = <<>>
    /\ storage = 0
    /\ coll = NoCollection
    /\ collOps = 0

\* The steps of the chain in flight: _calculate after fulfill(), the callback
\* of a joined wait, the fail callback. At most one of them is enabled.
Settle == RoundEver \/ WaitResolveEver \/ FailHandler

\* ENABLED <<Settle>>_vars, as a predicate on the chain's position.
SettleEnabled == m.pc \in {"scheduled", "round", "waiting", "rejected"}

\* WF_vars(Settle) with its ENABLED written as SettleEnabled: every result
\* of a joined wait is fulfilled in the end, and the event loop runs the
\* callbacks of settled promises.
FairSettle == []<>(~SettleEnabled) \/ []<><<Settle>>_vars

SpecLive == InitLive /\ [][NextLive]_vars /\ FairSettle

\* ------------------------------------------------------ persistence verbs
GetId(st) == IF "id" \in NameSet(st) THEN st.value["id"] ELSE Null

IsNew(st) == GetId(st) = Null

Destruct(st) == Trigger([st EXCEPT !._isDestructed = TRUE], "destruct", "")

\* The state of the _readyPromise of chain c.
PromiseState(st, c) ==
    IF c \in st.okChains THEN "fulfilled"
    ELSE IF c < st.chain THEN "rejected"
    ELSE st.promise

\* A verb call: pc is its position, awaits the chain whose promise ready()
\* returned to it, handed the values the model had when save gave it to
\* Storage.
NewOp(verb, pc) ==
    [verb |-> verb, pc |-> pc, kind |-> "", awaits |-> 0, settled |-> FALSE,
     inserts |-> 0, updates |-> 0, finds |-> 0, removes |-> 0, handed |-> NoData,
     onDestructed |-> m._isDestructed, hadId |-> "id" \in NameSet(m)]

\* The calls another turn may still make in a behaviour of the persistence checks.
CanCall == extSets + Len(ops) < MaxCalls /\ m.pc # "round"

Untouched == UNCHANGED <<data, extSets, hSets, raced, coll, collOps>>

\* save(): throws without an id attribute, rejects on a destructed model.
CallSave ==
    /\ CanCall
    /\ ops' = Append(ops, NewOp("save",
                IF "id" \notin NameSet(m) THEN "thrown"
                ELSE IF m._isDestructed THEN "rejected" ELSE "start"))
    /\ m' = Quiet(m)
    /\ UNCHANGED storage /\ Untouched

\* _rejectDestructed().then: new or not, and model.ready().
SaveBegin(i) ==
    /\ ops[i].verb = "save" /\ ops[i].pc = "start"
    /\ m.pc # "round"
    /\ ops' = [ops EXCEPT ![i].pc = "await_ready",
                          ![i].kind = IF IsNew(m) THEN "insert" ELSE "update",
                          ![i].awaits = m.chain]
    /\ m' = Quiet(m)
    /\ UNCHANGED storage /\ Untouched

\* Mutant: Storage is called without waiting for ready().
SaveStorageCallNoWait(i) ==
    /\ ops[i].verb = "save" /\ ops[i].pc = "await_ready"
    /\ m.pc # "round"
    /\ ops' = [ops EXCEPT ![i].pc = "in_storage",
                          ![i].settled = PromiseState(m, ops[i].awaits) = "fulfilled",
                          ![i].inserts = @ + (IF ops[i].kind = "insert" THEN 1 ELSE 0),
                          ![i].updates = @ + (IF ops[i].kind = "update" THEN 1 ELSE 0),
                          ![i].handed = m.value]
    /\ m' = Quiet(m)
    /\ UNCHANGED storage /\ Untouched

\* ready().then: storage.insert(model) or storage.update(model).
SaveStorageCall(i) ==
    /\ ops[i].verb = "save" /\ ops[i].pc = "await_ready"
    /\ m.pc # "round"
    /\ PromiseState(m, ops[i].awaits) = "fulfilled"
    /\ ops' = [ops EXCEPT ![i].pc = "in_storage",
                          ![i].settled = PromiseState(m, ops[i].awaits) = "fulfilled",
                          ![i].inserts = @ + (IF ops[i].kind = "insert" THEN 1 ELSE 0),
                          ![i].updates = @ + (IF ops[i].kind = "update" THEN 1 ELSE 0),
                          ![i].handed = m.value]
    /\ m' = Quiet(m)
    /\ UNCHANGED storage /\ Untouched

\* insert resolved with the identity: set it, commit, calculate, ready().
SaveInserted(i) ==
    /\ ops[i].verb = "save" /\ ops[i].pc = "in_storage" /\ ops[i].kind = "insert"
    /\ m.pc # "round"
    /\ storage' = storage + 1
    /\ m' = Calculate(Commit(AttrSet(Quiet(m), "id", storage'), DEFAULT_BRANCH))
    /\ ops' = [ops EXCEPT ![i].pc = "await_ready2", ![i].awaits = m'.chain]
    /\ Untouched

\* update resolved: commit.
SaveUpdated(i) ==
    /\ ops[i].verb = "save" /\ ops[i].pc = "in_storage" /\ ops[i].kind = "update"
    /\ m.pc # "round"
    /\ m' = Commit(Quiet(m), DEFAULT_BRANCH)
    /\ ops' = [ops EXCEPT ![i].pc = "fulfilled"]
    /\ UNCHANGED storage /\ Untouched

\* The ready() returned after insert is fulfilled: save is fulfilled.
SaveDone(i) ==
    /\ ops[i].verb = "save" /\ ops[i].pc = "await_ready2"
    /\ m.pc # "round"
    /\ PromiseState(m, ops[i].awaits) = "fulfilled"
    /\ ops' = [ops EXCEPT ![i].pc = "fulfilled"]
    /\ m' = Quiet(m)
    /\ UNCHANGED storage /\ Untouched

\* fetch(): throws without an id attribute; this.ready() at once.
CallFetch ==
    /\ CanCall
    /\ ops' = Append(ops,
                IF "id" \notin NameSet(m) THEN NewOp("fetch", "thrown")
                ELSE [NewOp("fetch", "await_ready") EXCEPT !.awaits = m.chain])
    /\ m' = Quiet(m)
    /\ UNCHANGED storage /\ Untouched

\* ready().then: storage.find(model).
FetchStorageCall(i) ==
    /\ ops[i].verb = "fetch" /\ ops[i].pc = "await_ready"
    /\ m.pc # "round"
    /\ PromiseState(m, ops[i].awaits) = "fulfilled"
    /\ ops' = [ops EXCEPT ![i].pc = "in_storage", ![i].finds = @ + 1]
    /\ m' = Quiet(m)
    /\ UNCHANGED storage /\ Untouched

\* The values of attribute a a stored record may hold.
StoredVals == {0, MaxVal}

\* find resolved with data: model.set(data), ready().
FetchReply(i) ==
    /\ ops[i].verb = "fetch" /\ ops[i].pc = "in_storage"
    /\ m.pc # "round"
    /\ \E v \in StoredVals : m' = SetData(Quiet(m), [NoData EXCEPT !["a"] = v])
    /\ ops' = [ops EXCEPT ![i].pc = "await_ready2", ![i].awaits = m'.chain]
    /\ UNCHANGED storage /\ Untouched

\* The ready() returned after set(data) is fulfilled: commit.
FetchDone(i) ==
    /\ ops[i].verb = "fetch" /\ ops[i].pc = "await_ready2"
    /\ m.pc # "round"
    /\ PromiseState(m, ops[i].awaits) = "fulfilled"
    /\ m' = Commit(Quiet(m), DEFAULT_BRANCH)
    /\ ops' = [ops EXCEPT ![i].pc = "fulfilled"]
    /\ UNCHANGED storage /\ Untouched

\* remove(): a new model is destructed at once, no Storage call.
CallRemove ==
    /\ CanCall
    /\ IF IsNew(m)
       THEN /\ m' = Destruct(Quiet(m))
            /\ ops' = Append(ops, NewOp("remove", "fulfilled"))
       ELSE /\ m' = Quiet(m)
            /\ ops' = Append(ops, NewOp("remove",
                        IF "id" \notin NameSet(m) THEN "thrown" ELSE "start"))
    /\ UNCHANGED storage /\ Untouched

\* fulfill().then: storage.remove(model).
RemoveStorageCall(i) ==
    /\ ops[i].verb = "remove" /\ ops[i].pc = "start"
    /\ m.pc # "round"
    /\ ops' = [ops EXCEPT ![i].pc = "in_storage", ![i].removes = @ + 1]
    /\ m' = Quiet(m)
    /\ UNCHANGED storage /\ Untouched

\* remove resolved: destruct.
RemoveReply(i) ==
    /\ ops[i].verb = "remove" /\ ops[i].pc = "in_storage"
    /\ m.pc # "round"
    /\ m' = Destruct(Quiet(m))
    /\ ops' = [ops EXCEPT ![i].pc = "fulfilled"]
    /\ UNCHANGED storage /\ Untouched

\* The promise ready() returned to a verb is rejected: so is the verb.
AwaitRejected(i) ==
    /\ ops[i].pc \in {"await_ready", "await_ready2"}
    /\ m.pc # "round"
    /\ PromiseState(m, ops[i].awaits) = "rejected"
    /\ ops' = [ops EXCEPT ![i].pc = "rejected"]
    /\ m' = Quiet(m)
    /\ UNCHANGED storage /\ Untouched

\* The Storage call of a verb is rejected: so is the verb.
StorageFail(i) ==
    /\ ops[i].pc = "in_storage"
    /\ m.pc # "round"
    /\ ops' = [ops EXCEPT ![i].pc = "rejected"]
    /\ m' = Quiet(m)
    /\ UNCHANGED storage /\ Untouched

\* Another turn's code calls model.destruct().
ExtDestruct ==
    /\ CanCall
    /\ ~m._isDestructed
    /\ m' = Destruct(Quiet(m))
    /\ ops' = Append(ops, NewOp("destruct", "fulfilled"))
    /\ UNCHANGED storage /\ Untouched

\* Another turn's code calls model.set(name, v).
PersistSet == CanCall /\ ExtSet

\* The model types of the persistence checks: with and without an id attribute.
PersistSchemas ==
    [calc : {"none", "f"}, amend : {"none"}, nested : {FALSE}, hasId : BOOLEAN]

PersistDatas == [id : {Undef, 1}, a : {Undef}, b : {Undef}]

\* No change handler is subscribed.
InitPersist ==
    /\ \E schema \in PersistSchemas, d \in PersistDatas :
        /\ m = Construct(schema, d)
        /\ data = d
        /\ storage = IF GetId(m) = Null THEN 0 ELSE 1
    /\ extSets = 0
    /\ hSets = MaxHandlerSets
    /\ raced = FALSE
    /\ ops = <<>>
    /\ coll = NoCollection
    /\ collOps = 0

NextPersist ==
    \/ PersistSet \/ Round \/ WaitResolve \/ WaitReject \/ FailHandler
    \/ CallSave \/ CallFetch \/ CallRemove \/ ExtDestruct
    \/ \E i \in DOMAIN ops : SaveBegin(i)
    \/ \E i \in DOMAIN ops : SaveStorageCall(i)
    \/ \E i \in DOMAIN ops : SaveInserted(i)
    \/ \E i \in DOMAIN ops : SaveUpdated(i)
    \/ \E i \in DOMAIN ops : SaveDone(i)
    \/ \E i \in DOMAIN ops : FetchStorageCall(i)
    \/ \E i \in DOMAIN ops : FetchReply(i)
    \/ \E i \in DOMAIN ops : FetchDone(i)
    \/ \E i \in DOMAIN ops : RemoveStorageCall(i)
    \/ \E i \in DOMAIN ops : RemoveReply(i)
    \/ \E i \in DOMAIN ops : AwaitRejected(i)
    \/ \E i \in DOMAIN ops : StorageFail(i)

SpecPersist == InitPersist /\ [][NextPersist]_vars

\* ------------------------------------------------- collection operations
\* The arrays another turn's code may pass: models that exist and plain data,
\* no more plain data than models the collection may still construct.
InputEntries(c) ==
    {<<"model", o>> : o \in {p \in Objects : c.pool[p].born}}
        \cup {<<"data", id>> : id \in Ids \cup {Null}}

SeqsUpTo(S, n) == UNION {[1 .. k -> S] : k \in 0 .. n}

\* The longest array the next operation may be given.
Room ==
    LET left == MaxCollWork - collOps - 1
    IN  IF left < MaxInputLen THEN left ELSE MaxInputLen

Inputs(c) ==
    {input \in SeqsUpTo(InputEntries(c), Room) :
        Cardinality({i \in DOMAIN input : input[i][1] = "data"})
            <= Cardinality({o \in Objects : ~c.pool[o].born})}

ModelArrays(c) == SeqsUpTo({o \in Objects : c.pool[o].born}, Room)

CollQuiet(c) == [c EXCEPT !.events = <<>>]

\* An operation called with an array of n entries, or with one value.
Operate(n) == collOps + 1 + n <= MaxCollWork /\ collOps' = collOps + 1 + n

ModelUntouched == UNCHANGED <<m, data, extSets, hSets, raced, ops, storage>>

CallCollSet ==
    /\ \E input \in Inputs(coll) :
        /\ Operate(Len(input))
        /\ coll' = CollSet(CollQuiet(coll), input)
    /\ ModelUntouched

CallCollAdd ==
    /\ \E input \in Inputs(coll), at \in {Undef} \cup (0 .. Len(coll._models)) :
        /\ Operate(Len(input))
        /\ coll' = CollAdd(CollQuiet(coll), input, at)
    /\ ModelUntouched

CallCollRemove ==
    /\ \E models \in ModelArrays(coll) :
        /\ Operate(Len(models))
        /\ coll' = CollRemove(CollQuiet(coll), models)
    /\ ModelUntouched

CallCollRevert ==
    /\ Operate(0)
    /\ \E branch \in CollBranches : coll' = CollRevert(CollQuiet(coll), branch)
    /\ ModelUntouched

CallCollCommit ==
    /\ Operate(0)
    /\ \E branch \in CollBranches : coll' = CollCommit(CollQuiet(coll), branch)
    /\ ModelUntouched

\* model.set(identity) on a member whose last change is announced: the
\* change event follows when the model has settled.
MemberSetId ==
    /\ Operate(1)
    /\ \E o \in Objects, id \in Ids \cup {Null} :
        /\ \E i \in DOMAIN coll._models : coll._models[i] = o
        /\ ~coll.pool[o].isDestructed
        /\ coll.pool[o].previousId = coll.pool[o].id
        /\ id # coll.pool[o].id
        /\ coll' = [CollQuiet(coll) EXCEPT !.pool[o].id = id]
    /\ ModelUntouched

\* model.destruct() on a member, directly or at the end of model.remove().
MemberDestruct ==
    /\ Operate(1)
    /\ \E i \in DOMAIN coll._models :
        /\ ~coll.pool[coll._models[i]].isDestructed
        /\ coll' = ModelDestruct(CollQuiet(coll), coll._models[i])
    /\ ModelUntouched

\* The model has settled and emits the change event of its identity: the
\* collection hears it if it relays the model's events.
MemberChangeEvent ==
    /\ \E o \in Objects :
        /\ coll.pool[o].born
        /\ coll.pool[o].previousId # coll.pool[o].id
        /\ LET c1 == IF o \in coll.relays THEN OnModelEvent(CollQuiet(coll), o)
                     ELSE CollQuiet(coll)
           IN  coll' = [c1 EXCEPT !.pool[o].previousId = c1.pool[o].id]
    /\ collOps' = collOps
    /\ ModelUntouched

\* The models constructed outside, new ones first, then persisted ones by
\* identity, and a collection constructed over the first k of them, or over
\* the first of them given twice.
InitColl ==
    /\ \E ids \in {f \in [1 .. MaxModels -> Ids \cup {Null}] :
                        \A i \in 1 .. (MaxModels - 1) : f[i] <= f[i + 1]} :
        LET pool == [o \in Objects |->
                        IF o <= MaxModels THEN ModelObject(ids[o], FALSE) ELSE Unborn]
        IN  \E input \in {[i \in 1 .. k |-> <<"model", i>>] : k \in 0 .. MaxModels}
                            \cup {<< <<"model", 1>>, <<"model", 1>> >>} :
                coll = CollQuiet(NewCollection(pool, input))
    /\ m = Construct([calc |-> "none", amend |-> "none", nested |-> FALSE,
                      hasId |-> FALSE], NoData)
    /\ data = NoData
    /\ extSets = 0
    /\ hSets = 0
    /\ raced = FALSE
    /\ ops = <<>>
    /\ storage = 0
    /\ collOps = 0

NextColl ==
    \/ CallCollSet
    \/ CallCollAdd
    \/ CallCollRemove
    \/ CallCollRevert
    \/ CallCollCommit
    \/ MemberSetId
    \/ MemberChangeEvent
    \/ MemberDestruct

SpecColl == InitColl /\ [][NextColl]_vars

\* ------------------------------------------------------ branch operations
\* A call of a caller, with the values the attributes held when its commit
\* returned (commit, roundtrip), when it was entered (set) or that the
\* branch held (revert).
BranchCall(verb, branch, committed) ==
    [verb |-> verb, branch |-> branch, committed |-> committed]

CanCallBranch == Len(ops) < MaxCalls /\ m.pc # "round"

BranchUntouched == UNCHANGED <<data, hSets, raced, storage, coll, collOps>>

\* model.commit(branch)
CallCommit ==
    /\ CanCallBranch
    /\ \E branch \in Branches :
        /\ m' = Commit(Quiet(m), branch)
        /\ ops' = Append(ops, BranchCall("commit", branch, m'.value))
    /\ extSets' = extSets
    /\ BranchUntouched

\* model.set(name, value)
CallSet ==
    /\ CanCallBranch
    /\ extSets < MaxExtSets
    /\ \E name \in {"a", "b"}, v \in Val :
        /\ m' = Set(Quiet(m), name, v)
        /\ ops' = Append(ops, BranchCall("set", "", m.value))
    /\ extSets' = extSets + 1
    /\ BranchUntouched

\* model.revert(branch)
CallRevert ==
    /\ CanCallBranch
    /\ \E branch \in Branches :
        /\ m' = Revert(Quiet(m), branch)
        /\ ops' = Append(ops, BranchCall("revert", branch, m.branches[branch]))
    /\ extSets' = extSets
    /\ BranchUntouched

\* One turn of a caller: model.commit(branch); model.set(name, value);
\* model.revert(branch).
CallRoundTrip ==
    /\ CanCallBranch
    /\ extSets < MaxExtSets
    /\ \E branch \in Branches, name \in {"a", "b"}, v \in Val :
        LET committed == Commit(Quiet(m), branch)
        IN  /\ m' = Revert(Set(committed, name, v), branch)
            /\ ops' = Append(ops, BranchCall("roundtrip", branch, committed.value))
    /\ extSets' = extSets + 1
    /\ BranchUntouched

BranchSchemas ==
    {s \in Schemas : s.calc \in {"none", "f"} /\ s.amend = "none" /\ ~s.nested}

\* No change handler is registered.
InitBranch ==
    /\ \E schema \in BranchSchemas :
        /\ m = Construct(schema, NoData)
        /\ data = NoData
    /\ extSets = 0
    /\ hSets = MaxHandlerSets
    /\ raced = FALSE
    /\ ops = <<>>
    /\ storage = 0
    /\ coll = NoCollection
    /\ collOps = 0

NextBranch ==
    \/ CallCommit
    \/ CallSet
    \/ CallRevert
    \/ CallRoundTrip
    \/ Round
    \/ WaitResolve

SpecBranch == InitBranch /\ [][NextBranch]_vars

\* ------------------------------------------------- claims on the model
\* The value an attribute was seeded with by the constructor.
Seed(name) == IF data[name] = Undef THEN DefaultOf(name) ELSE data[name]

\* The settlement started by the constructor has completed successfully.
FirstSettled == m.first /\ m.pc = "idle" /\ m.promise = "fulfilled"

ChangeEventsOf(events) ==
    LET IsChange(e) == e[1] = "change"
    IN  SelectSeq(events, IsChange)

\* change:<name> for every attribute whose change-branch value the step
\* replaced, in schema order, then one `change`.
ExpectedChangeEvents(old, new) ==
    LET Differs(name) ==
            new.branches[CHANGE_BRANCH][name] # old.branches[CHANGE_BRANCH][name]
        fields == SelectSeq(new.names, Differs)
    IN  IF fields = <<>> THEN <<>>
        ELSE [i \in 1 .. Len(fields) |-> <<"change", fields[i]>>]
             \o << <<"change", "">> >>

\* C1: change events are emitted only by a finalization that commits the
\* change branch: every step emits exactly one change:<name> per attribute
\* whose change-branch value it replaced, in schema order, then exactly one
\* `change`, and emits none when it replaced none; a settlement that ends
\* READY leaves no attribute different from the change branch.
C1_ChangeEventsAtFinalization ==
    [][/\ ChangeEventsOf(m'.events) = ExpectedChangeEvents(m, m')
       /\ (m'.pc = "idle" /\ m'.promise = "fulfilled")
            => ~IsChanged(m', CHANGE_BRANCH)]_vars

C1_Witness ==
    ChangeEventsOf(m.events) = << <<"change", "a">>, <<"change", "b">>, <<"change", "">> >>

\* C2: when the joined wait of a round resolves after a set call changed the
\* model during the wait, no value is changed by the round's results (none is
\* applied) and the next round is entered.
C2_RacingUpdateDiscards ==
    [][(m.pc = "waiting" /\ raced /\ m'.pc \notin {"waiting", "rejected"})
        => (m'.value = m.value /\ m'.pc = "round" /\ m'.n = m.n + 1)]_vars

C2_Witness ==
    /\ raced
    /\ m.pc = "round"
    /\ m.calculations["b"] \notin {Undef, m.value["b"]}

\* C3 as stated: after the first settlement, nothing differs from the change
\* branch and exactly the attributes whose input datum differed from the
\* default fired change:<name>, followed by one `change`.
C3_Original ==
    (FirstSettled /\ extSets = 0 /\ hSets = 0)
        => LET given == {name \in NameSet(m) :
                            data[name] # Undef /\ data[name] # DefaultOf(name)}
           IN  /\ ~IsChanged(m, CHANGE_BRANCH)
               /\ m.fired = given
               /\ m.nChange = IF given = {} THEN 0 ELSE 1

\* C3 amended: after the first settlement completes successfully (no change
\* handler having called set), nothing differs from the change branch and
\* exactly the attributes whose value differs from the value the constructor
\* seeded (datum or default) fired change:<name>, followed by one `change`
\* when there is such an attribute.
C3_FirstSettlement ==
    (FirstSettled /\ hSets = 0)
        => LET moved == {name \in NameSet(m) : m.value[name] # Seed(name)}
           IN  /\ ~IsChanged(m, CHANGE_BRANCH)
               /\ m.fired = moved
               /\ m.nChange = IF moved = {} THEN 0 ELSE 1

C3_Witness ==
    /\ FirstSettled /\ hSets = 0
    /\ data["a"] # Undef /\ data["a"] # DefaultOf("a")
    /\ m.fired = {"b"}

\* C4: a settlement fails by the ceiling only after exactly maxCalculations
\* rounds; the error names the attributes changed relative to the calculation
\* branch (b, when calculate always returns a new value and no set call raced
\* with the last round); such a model never settles; and after the failure no
\* settlement starts without a new set call.
C4_LoopLimit ==
    [][/\ m'.failure = "loop"
            => (m'.rounds = maxCalculations /\ m'.n = maxCalculations)
       /\ (m'.failure = "loop" /\ m.failure # "loop")
            => /\ m'.changedFields = ChangedFields(m', CALCULATIONS_BRANCH)
               /\ (m'.calc = "inc" /\ ~raced) => m'.changedFields = <<"b">>
       /\ m'.calc = "inc" => m'.promise # "fulfilled"
       /\ (m.failure = "loop" /\ m'.pc = "scheduled") => extSets' = extSets + 1]_vars

C4_Witness ==
    /\ m.failure = "loop" /\ m.pc = "idle" /\ m._ready
    /\ m.calc = "inc" /\ m.changedFields = <<"b">>

\* C5: with calculate(b) = F(a) and b seeded different from F(a), and no set
\* call from outside, the first settlement ends READY after exactly 2 rounds
\* (n = 0 applies b, n = 1 confirms) and emits `change` exactly once.
C5_Convergence ==
    (m.calc = "f" /\ FirstSettled /\ extSets = 0 /\ hSets = 0
        /\ Seed("b") # F(Seed("a")))
        => /\ m.rounds = 2 /\ m.n = 1
           /\ m.nChange = 1
           /\ m.value["b"] = F(m.value["a"])

C5_Witness ==
    /\ m.calc = "f" /\ FirstSettled /\ extSets = 0 /\ hSets = 0
    /\ Seed("b") # F(Seed("a"))
    /\ m.rounds = 2

\* C8: once a settlement has failed (ceiling or rejected result) and the
\* failure is reported, the model is READY; the next set call starts a new
\* settlement, and the first round of every settlement runs with n = 0.
C8_ReadyAfterFailure ==
    [][/\ m'.promise = "rejected" => (m'._ready /\ m'.pc = "idle")
       /\ (m.promise = "rejected" /\ m' # m)
            => (m'.pc = "scheduled" /\ m'.promise = "pending" /\ ~m'._ready)
       /\ (m.pc = "scheduled" /\ m'.pc # "scheduled")
            => (m'.rounds = 1 /\ m'.n = IF m'.pc = "round" THEN 1 ELSE 0)]_vars

\* A settlement failed and a later one completed normally.
C8_Witness ==
    m.everFailed /\ m.promise = "fulfilled" /\ m.pc = "idle" /\ m._ready

\* ------------------------------------------- claims on the persistence verbs
StorageCalls(op) == op.inserts + op.updates + op.finds + op.removes

Verbs == {"save", "fetch", "remove"}

\* C6 as stated: a verb called on a destructed model (one that declares an
\* identity) is never fulfilled and makes no Storage call.
C6_DestructedVerbsReject ==
    \A i \in DOMAIN ops :
        (ops[i].verb \in Verbs /\ ops[i].onDestructed /\ ops[i].hadId)
            => (ops[i].pc # "fulfilled" /\ StorageCalls(ops[i]) = 0)

\* C7 as stated: a verb called on a model that declares no identity attribute
\* throws, calls no Storage operation and leaves values, branches and the
\* destructed flag as they were.
C7_NoIdentityMisuse ==
    [][(Len(ops') > Len(ops) /\ ops'[Len(ops')].verb \in Verbs
            /\ "id" \notin NameSet(m))
        => /\ ops'[Len(ops')].pc = "thrown"
           /\ StorageCalls(ops'[Len(ops')]) = 0
           /\ m'.value = m.value /\ m'.branches = m.branches
           /\ m'._isDestructed = m._isDestructed]_vars

C10_NoModelTwice ==
    \A i, j \in DOMAIN coll._models : i # j => coll._models[i] # coll._models[j]

\* The events of one kind the last operation emitted.
CollEventsOf(c, kind) ==
    LET Is(e) == e[1] = kind
    IN  SelectSeq(c.events, Is)

Members(c) == {c._models[i] : i \in DOMAIN c._models}

\* C11 as stated: an entry add inserts was no member before, occurs once, and
\* shares its identity (when it has one) with no other member; the length
\* grows by the number of `add` events.
C11_AddSkipsMembers ==
    [][LET added == CollEventsOf(coll', "add")
       IN  added # <<>> =>
            /\ Len(coll'._models) = Len(coll._models) + Len(added)
            /\ \A k \in DOMAIN added :
                LET o == added[k][2]
                IN  /\ o \notin Members(coll)
                    /\ Cardinality({i \in DOMAIN coll'._models : coll'._models[i] = o}) = 1
                    /\ \A p \in Members(coll') \ {o} :
                        coll'.pool[o].id = Null \/ coll'.pool[p].id # coll'.pool[o].id]_vars

\* C12 as stated: every `add` event carries the index its model has in the
\* collection after the insertion.
C12_AddEventIndex ==
    [][\A k \in DOMAIN CollEventsOf(coll', "add") :
        LET e == CollEventsOf(coll', "add")[k]
        IN  IndexOf(coll'._models, e[2]) = e[3]]_vars

\* No object occurs twice in the sequence.
Distinct(models) == \A i, j \in DOMAIN models : i # j => models[i] # models[j]

\* The sequence without the objects of S, order kept.
Without(models, S) ==
    LET Keep(o) == o \notin S
    IN  SelectSeq(models, Keep)

\* What C13 says of remove(models) taking c to d.
RemoveEffect(c, d, models) ==
    LET input == {models[i] : i \in DOMAIN models}
        removed == input \cap Members(c)
        evs == CollEventsOf(d, "remove")
    IN  /\ d._models = Without(c._models, removed)
        /\ Len(evs) = Cardinality(removed)
        /\ {evs[k][2] : k \in DOMAIN evs} = removed
        /\ \A k \in DOMAIN evs :
            evs[k][3] = IndexOf(Without(c._models, {evs[j][2] : j \in 1 .. (k - 1)}),
                                evs[k][2])
        /\ d.relays = c.relays \ removed
        /\ \A o \in removed :
            c.pool[o].id # Null => CollGet(d, c.pool[o].id) # o
        /\ \A o \in Objects :
            d.pool[o].isDestructed =
                (c.pool[o].isDestructed \/ (o \in removed /\ c.pool[o].isNested))

\* The arrays a step may have given to remove: it spent their length and
\* emitted nothing but `remove`.
RemoveArrays ==
    IF collOps' > collOps /\ \A k \in DOMAIN coll'.events : coll'.events[k][1] = "remove"
    THEN [1 .. (collOps' - collOps - 1) -> {o \in Objects : coll.pool[o].born}]
    ELSE {}

C14_PreviousSnapshot ==
    [][/\ ((coll'._models # coll._models
                \/ \E k \in DOMAIN coll'.events :
                        coll'.events[k][1] \in {"reset", "add", "remove"})
            /\ \A k \in DOMAIN coll'.events : coll'.events[k][1] # "destruct")
            => coll'._cacheBranches[PREVIOUS_BRANCH] = coll._models
       /\ (collOps' = collOps + 1
            /\ coll' = CollRevert(CollQuiet(coll), PREVIOUS_BRANCH))
            => coll'._models = coll._cacheBranches[PREVIOUS_BRANCH]]_vars

\* set([]) on a collection of two members, then revert(PREVIOUS): the two are
\* back in their order.
C14_Witness ==
    /\ collOps = 2
    /\ Len(coll._models) = 2 /\ Distinct(coll._models)
    /\ coll._cacheBranches[PREVIOUS_BRANCH] = <<>>
    /\ coll._cacheBranches[DEFAULT_BRANCH] = coll._models
    /\ coll.events = << <<"reset", NoObject, 0>> >>

\* ------------------------------------------ claims on the branch operations
LastCall == ops'[Len(ops')]

\* C15: round-trip law for every branch b. Right after commit(b),
\* isChanged(b) is false; after commit(b), set(x), revert(b) in one turn every
\* attribute holds the value it had when commit(b) returned, the snapshot of
\* b is that value and isChanged(b) is false; a set call changes no branch
\* snapshot.
C15_RoundTrip ==
    [][(Len(ops') = Len(ops) + 1 /\ LastCall.verb \in {"commit", "set", "revert", "roundtrip"}) =>
        /\ LastCall.verb = "commit" =>
            /\ ~IsChanged(m', LastCall.branch)
            /\ m'.value = m.value
        /\ LastCall.verb = "roundtrip" =>
            /\ m'.value = LastCall.committed
            /\ m'.branches[LastCall.branch] = LastCall.committed
            /\ ~IsChanged(m', LastCall.branch)
        /\ LastCall.verb = "set" => m'.branches = m.branches
        /\ LastCall.verb = "revert" =>
            /\ m'.value = m.branches[LastCall.branch]
            /\ m'.branches = m.branches]_vars

\* A settled model made the round trip on the custom branch: its set call
\* changed a value and so started the second settlement chain.
C15_Witness ==
    /\ Len(ops) = 1
    /\ ops[1].verb = "roundtrip"
    /\ ops[1].branch = CUSTOM_BRANCH
    /\ m.chain = 2
    /\ m.pc = "scheduled"
    /\ m.value = ops[1].committed
    /\ m.branches[CUSTOM_BRANCH] = m.value
    /\ m.branches[CHANGE_BRANCH] = m.value

\* ------------------------------------------- claims on the settlement chain
\* C16: at most one settlement chain is in flight. A chain starts only from
\* a trigger that finds the model ready, with no chain in flight; a set call
\* that finds the model settling starts none: it records that more
\* calculations are required and leaves the chain in flight where it is.
C16_OneChain ==
    [][/\ m'.chain # m.chain =>
            /\ m._ready
            /\ m.pc = "idle"
            /\ m'.chain = m.chain + 1
            /\ m'.pc = "scheduled"
       /\ (extSets' = extSets + 1 /\ ~m._ready) =>
            /\ m'.chain = m.chain
            /\ m'._requireMoreCalculations
            /\ ~m'._ready
            /\ m'.pc = m.pc
            /\ m'.n = m.n
       /\ (extSets' = extSets + 1 /\ m._ready) => m'.chain = m.chain + 1]_vars

\* A set call arrived during the joined wait of the first chain.
C16_Witness ==
    /\ extSets = 1
    /\ m.pc = "waiting"
    /\ m.chain = 1
    /\ ~m._ready
    /\ m._requireMoreCalculations

C18_RejectionFailsRound ==
    [][/\ (m.pc = "waiting" /\ m'.pc = "rejected") =>
            /\ m'.value = m.value
            /\ m'.nChange = m.nChange
            /\ m'.events = <<>>
       /\ (m.pc = "rejected" /\ m'.pc # "rejected") =>
            /\ m'.promise = "rejected"
            /\ m'.value = m.value
            /\ m'.events = <<>>
       /\ (m'.alreadyRejected /\ extSets' = extSets /\ m' # m) =>
            /\ m'.value = m.value
            /\ m'.nChange = m.nChange
            /\ m'.promise # "fulfilled"]_vars

\* C19: in every round, calculate of the attribute that exposes it is
\* invoked exactly once, and amend of the attribute that exposes it is
\* invoked if and only if that attribute is changed relative to the change
\* branch.
C19_HooksOncePerRound ==
    [][(m.pc \in {"scheduled", "round"} /\ m'.rounds = m.rounds + 1) =>
        /\ m'.calcCalls = (IF m.calc # "none" THEN 1 ELSE 0)
        /\ m'.amendCalls = (IF m.amend # "none" /\ AttrIsChanged(m, "a", CHANGE_BRANCH)
                            THEN 1 ELSE 0)]_vars

\* ------------------------------------------ claims on the identity index
Announced == \A o \in Objects : coll.pool[o].previousId = coll.pool[o].id

\* C20: identity-index invariant. Once every identity change is announced,
\* the index holds an entry for exactly each member whose identity is not
\* null, under that member's identity and mapping to that member: none for
\* a new model, for a removed model, or under an identity no member has.
C20_IdentityIndex ==
    Announced =>
        /\ \A o \in Members(coll) :
            coll.pool[o].id # Null => CollGet(coll, coll.pool[o].id) = o
        /\ \A id \in Ids :
            CollGet(coll, id) # NoObject =>
                /\ CollGet(coll, id) \in Members(coll)
                /\ coll.pool[CollGet(coll, id)].id = id

\* ------------------------------------------------ claims on self-removal
\* What C21 says of the destruct of member o taking c to d.
SelfRemoval(c, d, o) ==
    LET evs == CollEventsOf(d, "remove")
    IN  /\ Len(d._models) = Len(c._models) - 1
        /\ d._models = Without(c._models, {o})
        /\ o \notin d.relays
        /\ c.pool[o].id # Null => CollGet(d, c.pool[o].id) # o
        /\ evs = << <<"remove", o, IndexOf(c._models, o)>> >>

C22_FirstRoundDeferred ==
    /\ m.pc = "scheduled" /\ m.rounds = 0 /\ ~m._ready
    /\ \A name \in NameSet(m) : m.branches[CALCULATIONS_BRANCH][name] = Undef
    /\ [][/\ (m.first /\ m.pc = "scheduled" /\ extSets' = extSets + 1) =>
                /\ m'.pc = "scheduled"
                /\ m'.rounds = 0
                /\ m'.branches = m.branches
          /\ (m.first /\ m.pc = "scheduled" /\ m'.rounds = 1) =>
                /\ m'.branches[CALCULATIONS_BRANCH] = m.value
                /\ (m.calc # "none") =>
                    (m'.pc = "waiting" /\ m'.calculations["b"] = CalcFn(m))
          /\ (m.first /\ m'.pc = "idle" /\ m'.promise = "fulfilled" /\ hSets' = 0) =>
                m'.fired = {name \in NameSet(m') : m'.value[name] # Seed(name)}]_vars

\* The first settlement ended after a set call made before round 0: the
\* calculate hook saw the value set (b = F(a)), and change:a was emitted.
C22_Witness ==
    /\ FirstSettled
    /\ extSets = 1 /\ hSets = 0
    /\ m.rounds = 2
    /\ m.calc = "f"
    /\ m.value["a"] # Seed("a")
    /\ m.value["b"] = F(m.value["a"])
    /\ m.value["b"] # Seed("b")
    /\ m.fired = {"a", "b"}

\* ------------------------------------------------- claims on termination
\* C23: termination. With every result of a joined wait fulfilled in the
\* end, a model that is settling becomes ready, after at most
\* maxCalculations rounds of the chain, converged or failed by the ceiling,
\* whatever the change handlers set in every round; and the promise of
\* ready() is pending exactly while the model is settling.
C23_Termination ==
    /\ [](m.rounds <= maxCalculations)
    /\ []((m.promise = "pending") <=> ~m._ready)
    /\ [](m._ready =>
            \/ m.promise = "fulfilled" /\ ~IsChanged(m, CALCULATIONS_BRANCH)
            \/ m.promise = "rejected" /\ m.failure = "loop"
                    /\ m.rounds = maxCalculations)
    /\ (~m._ready ~> m._ready)

\* A chain in which the handler set a value at every change ended by the
\* ceiling and the model is ready.
C23_Witness ==
    /\ m._ready
    /\ m.failure = "loop"
    /\ m.calc = "none"
    /\ m.rounds = maxCalculations
    /\ m.promise = "rejected"

\* The save calls that have called Storage.insert.
Inserting == {i \in DOMAIN ops : ops[i].verb = "save" /\ ops[i].inserts > 0}

\* C24: a new model is inserted into Storage at most once: of the save calls
\* made on it, the second one included when it is made before the first
\* insert has resolved, at most one calls Storage.insert.
C24_InsertOnce == Cardinality(Inserting) <= 1

\* Save call i resolves in this step.
SaveResolves(i) ==
    /\ i \in DOMAIN ops /\ i \in DOMAIN ops'
    /\ ops[i].verb = "save"
    /\ ops[i].pc # "fulfilled" /\ ops'[i].pc = "fulfilled"

\* C25: when save() resolves, the default branch holds the values that were
\* handed to Storage: an attribute edited while the Storage call was in
\* flight is still changed relative to the default branch, and with no such
\* edit the derived attribute is not.
C25_SaveCommitsHanded ==
    [][\A i \in DOMAIN ops : SaveResolves(i) =>
            /\ \A name \in {"a", "b"} :
                    m'.branches[DEFAULT_BRANCH][name] = ops[i].handed[name]
            /\ m'.value["a"] # ops[i].handed["a"]
                    => AttrIsChanged(m', "a", DEFAULT_BRANCH)
            /\ m'.value["a"] = ops[i].handed["a"]
                    => ~AttrIsChanged(m', "b", DEFAULT_BRANCH)]_vars

NoDestructedMember(c) ==
    \A i \in DOMAIN c._models : ~c.pool[c._models[i]].isDestructed

\* No model of the array given to set or add is destructed.
LiveInput(c, input) ==
    \A i \in DOMAIN input :
        input[i][1] = "model" => ~c.pool[input[i][2]].isDestructed

\* This step is a set or an add of models that are not destructed, a
\* remove, or a revert.
CollectionCall ==
    \/ \E input \in Inputs(coll) :
        /\ LiveInput(coll, input)
        /\ \/ coll' = CollSet(CollQuiet(coll), input)
           \/ \E at \in {Undef} \cup (0 .. Len(coll._models)) :
                coll' = CollAdd(CollQuiet(coll), input, at)
    \/ \E models \in ModelArrays(coll) : coll' = CollRemove(CollQuiet(coll), models)
    \/ \E branch \in CollBranches : coll' = CollRevert(CollQuiet(coll), branch)

\* C26: no destructed model is a member of a collection: set and add of
\* models that are not destructed, remove and revert, on a collection of
\* nested and external models none of which is destructed, leave every
\* member with isDestructed() false.
C26_NoDestructedMember ==
    [][(NoDestructedMember(coll) /\ CollectionCall) => NoDestructedMember(coll')]_vars

\* Collection c is what revert(branch) has just returned: its membership
\* is the snapshot stored for the branch, and another revert(branch) leaves
\* the membership as it is.
Reverted(c, branch) ==
    /\ IsEqualToArray(c, GetCacheBranch(c, branch))
    /\ CollRevert(c, branch)._models = c._models

\* C27: for every collection branch b, DEFAULT and PREVIOUS included, right
\* after revert(b) the ordered membership equals the snapshot stored for b,
\* so revert(b) twice in a row gives the membership revert(b) once gives.
C27_RevertRestores ==
    [][\A branch \in CollBranches :
            coll' = CollRevert(CollQuiet(coll), branch) => Reverted(coll', branch)]_vars

====
